---- MODULE Spec2Model ----
(***************************************************************************)
(* A model of the collaborative pixel canvas server (server.go, the later  *)
(* generation at lines 302-766): the shared panel grid under panelMutex,   *)
(* the Hub's command loop, each connection's readPump and writePump, and   *)
(* the snapshot timer.  Every goroutine is a process; a step is one        *)
(* statement that touches shared state (a channel operation, a lock        *)
(* operation, one access to the grid).  The earlier generation (lines     *)
(* 1-300) is modelled near the end, as far as it differs: its serveWs and  *)
(* syncPanels and its one-byte panel number.                               *)
(***************************************************************************)
EXTENDS Integers, Sequences, FiniteSets, TLC

(* ------------------------------------------------------------------ *)
(* Sizes.  The program's sizes (128 x 128 pixels, 28 x 30 = 840        *)
(* panels, a queue of 256 frames) are scaled down; the other bounds    *)
(* cap the environment (connections, frames, clock readings).          *)
(* ------------------------------------------------------------------ *)
panelSize == 2
cols == 2
rows == 1
numPanels == cols * rows
QueueCap == 2
NumClients == 2
MaxFrames == 2
MaxTime == 2
MaxSnapshots == 1
Burst == 1

MsgTypeUpdate == 1
MsgTypeRequest == 2
MsgTypeUpdateAck == 3
MsgTypeBroadcast == 4
MsgTypePanelSync == 5
MsgTypeAssignColor == 6

BinaryMessage == "binary"
TextMessage == "text"

Clients == 1..NumClients
(* Lock holders: the connections' readPumps, the snapshot timer, nobody. *)
Timer == NumClients + 1
NoOne == NumClients + 2

(* The colours rand.Intn may assign to a connection: the k-th connection *)
(* draws one of the first k colours of the palette, which gives, up to a *)
(* renaming of colours, every pattern of equal and distinct colours.     *)
Palette(k) == <<10 * k, 10 * k + 1, 10 * k + 2>>

Colours(c) == { Palette(k) : k \in 1..c }

(* ------------------------------------------------------------------ *)
(* Byte encodings (encoding/binary, big endian).                       *)
(* ------------------------------------------------------------------ *)
(* v >> (8 * k) *)
RECURSIVE ShiftRight8(_, _)
ShiftRight8(v, k) == IF k = 0 THEN v ELSE ShiftRight8(v \div 256, k - 1)

PutUint16(v) == << (v % 65536) \div 256, v % 256 >>

Uint16(b) == b[1] * 256 + b[2]

(* binary.BigEndian.Uint64, the inverse of PutUint64. *)
RECURSIVE Uint64(_)
Uint64(b) == IF b = <<>> THEN 0
             ELSE Uint64(SubSeq(b, 1, Len(b) - 1)) * 256 + b[Len(b)]

PutUint64(v) == [i \in 1..8 |-> ShiftRight8(v, 8 - i) % 256]

(* Pixel, and the zero value of the global panels array. *)
Pixel(r, g, b, ts) == [R |-> r, G |-> g, B |-> b, Timestamp |-> ts]

ZeroPanels ==
    [p \in 0..(numPanels - 1) |->
        [yy \in 0..(panelSize - 1) |->
            [xx \in 0..(panelSize - 1) |-> Pixel(0, 0, 0, 0)]]]

AssignBlack(col) == <<MsgTypeAssignColor, 0, 0, 0>>

(* The frames the server builds. *)
AssignMsg(col) == <<MsgTypeAssignColor, col[1], col[2], col[3]>>

BcastMsgOneBytePanel(panel, xx, yy, col, now) ==
    <<MsgTypeBroadcast, panel % 256, xx % 256, yy % 256>>
        \o <<col[1], col[2], col[3]>> \o PutUint64(now)

BcastMsg(panel, xx, yy, col, now) ==
    <<MsgTypeBroadcast>> \o PutUint16(panel) \o <<xx % 256, yy % 256>>
        \o <<col[1], col[2], col[3]>> \o PutUint64(now)

AckMsg == <<MsgTypeUpdateAck, 1>>

SyncHeader(panel) == <<MsgTypePanelSync>> \o PutUint16(panel)

(* ------------------------------------------------------------------ *)
(* Snapshot files.  A file is its name (a string, as bytes), what      *)
(* png.Encode wrote, and, as history, the grid the snapshot was taken  *)
(* of.                                                                 *)
(* ------------------------------------------------------------------ *)
(* %d: the decimal digits of t. *)
RECURSIVE Digits(_)
Digits(t) == IF t < 10 THEN <<48 + t>>
             ELSE Digits(t \div 10) \o <<48 + (t % 10)>>

(* fmt.Sprintf("/Users/Shared/data/%d.png", timestamp), without the    *)
(* directory.                                                          *)
FileName(t) == Digits(t) \o <<46, 112, 110, 103>>

(* The order of sort.Strings: byte by byte, a proper prefix first. *)
RECURSIVE LexLess(_, _)
LexLess(a, b) ==
    IF b = <<>> THEN FALSE
    ELSE IF a = <<>> THEN TRUE
    ELSE IF a[1] # b[1] THEN a[1] < b[1]
    ELSE LexLess(Tail(a), Tail(b))

(* sort.Strings(snapshots); latest := snapshots[len(snapshots)-1] *)
LatestName(names) ==
    CHOOSE n \in names : \A m \in names : m = n \/ LexLess(m, n)

(* png.Encode of an *image.RGBA: 8-bit RGB when every pixel is opaque, *)
(* otherwise 8-bit RGBA with the alpha premultiplication undone.       *)
Opaque(im) == \A pt \in DOMAIN im : im[pt][4] = 255

Straight(v, a) == IF a = 0 THEN 0 ELSE (v * 255) \div a

PngEncode(im) ==
    IF Opaque(im)
    THEN [kind |-> "RGB",
          pix |-> [pt \in DOMAIN im |-> <<im[pt][1], im[pt][2], im[pt][3]>>]]
    ELSE [kind |-> "NRGBA",
          pix |-> [pt \in DOMAIN im |->
                    <<Straight(im[pt][1], im[pt][4]),
                      Straight(im[pt][2], im[pt][4]),
                      Straight(im[pt][3], im[pt][4]), im[pt][4]>>]]

(* A file png.Decode rejects. *)
Undecodable == [kind |-> "none", pix |-> <<>>]

(* img.Bounds().Dx() and Dy() of a decoded image. *)
Dx(e) == Cardinality({ pt[1] : pt \in DOMAIN e.pix })
Dy(e) == Cardinality({ pt[2] : pt \in DOMAIN e.pix })

(* color.RGBAModel.Convert(img.At(X, Y)).(color.RGBA) of a decoded     *)
(* image: outside the bounds At gives the zero colour.                 *)
ColorAt(e, pt) ==
    IF pt \notin DOMAIN e.pix THEN <<0, 0, 0, 0>>
    ELSE IF e.kind = "RGB"
    THEN <<e.pix[pt][1], e.pix[pt][2], e.pix[pt][3], 255>>
    ELSE << (e.pix[pt][1] * e.pix[pt][4]) \div 255,
            (e.pix[pt][2] * e.pix[pt][4]) \div 255,
            (e.pix[pt][3] * e.pix[pt][4]) \div 255, e.pix[pt][4] >>

(* os.Create truncates a file of the same name. *)
Create(fs, name, e, g) ==
    { f \in fs : f.name # name } \cup { [name |-> name, image |-> e, grid |-> g] }

(* The frames a peer may send: Updates on the first and on the last cell *)
(* of the grid, Updates with one index just out of range, Requests for   *)
(* the first and the last panel and for the first index out of range,    *)
(* and malformed frames.                                                 *)
LastPanel == numPanels - 1
LastCoord == panelSize - 1

InRangeTargets ==
    { <<0, 0, 0>>, <<LastPanel, LastCoord, LastCoord>> }

OutOfRangeTargets ==
    { <<numPanels, 0, 0>>, <<0, panelSize, 0>>, <<0, 0, panelSize>> }

UpdateFrame(t) == <<MsgTypeUpdate>> \o PutUint16(t[1]) \o <<t[2], t[3]>>

RequestFrame(p) == <<MsgTypeRequest>> \o PutUint16(p)

UpdateFrames == { UpdateFrame(t) : t \in InRangeTargets \cup OutOfRangeTargets }

RequestFrames == { RequestFrame(p) : p \in {0, LastPanel, numPanels} }

ShortFrames == { <<>>, <<9>>, <<MsgTypeUpdate, 0, 0, 0>>, <<MsgTypeRequest, 0>> }

Binary(d) == [messageType |-> BinaryMessage, data |-> d]

Inbound ==
    { Binary(d) : d \in UpdateFrames \cup RequestFrames \cup ShortFrames }
    \cup { [messageType |-> TextMessage, data |-> UpdateFrame(<<0, 0, 0>>)] }

NoFrame == [messageType |-> "none", data |-> <<>>]

VARIABLES
    panels,       \* the global grid: panels[panel][y][x] is a Pixel
    writer,       \* panelMutex: the goroutine holding the write lock, or NoOne
    readers,      \* panelMutex: the goroutines holding the read lock
    clock,        \* the wall clock read by time.Now()
    clients,      \* Hub.clients
    hubpc,        \* Hub.run: "select", or "range" inside the broadcast loop
    message,      \* Hub.run: the message being fanned out
    todo,         \* Hub.run: the clients the range loop has yet to visit
    send,         \* Client.send: the frames buffered in the channel
    closed,       \* Client.send: whether the channel was closed
    color,        \* Client.color
    pc,           \* serveWs / readPump: where each connection's goroutine is
    msg,          \* readPump: the frame last returned by ReadMessage
    loc,          \* readPump: panel, x, y, now of the frame being handled
    buf,          \* readPump: the PanelSync payload under construction
    wp,           \* writePump: "off", "run" or "done"
    conn,         \* the transport: "open" or "closed"
    snappc,       \* snapshot timer: "idle", "copy", "unlock"
    cur,          \* snapshotPanels: the loop variables i, y, x
    img,          \* snapshotPanels: the image, a pixel per (X, Y)
    nsnaps,       \* snapshots started so far
    files,        \* the snapshots written to the data directory
    mainpc,       \* main: "load", "loaded", "skipped", then "serve"
    latest,       \* loadLatestSnapshot: the file name it picked
    panicked,     \* a goroutine panicked: the process is gone
    nframes,      \* frames read so far, over all connections
    pre,          \* history: the target cell when the write lock was taken
    held,         \* history: the grid when each read lock was taken
    attempts,     \* history: per cell, the (timestamp, colour) of writes done
    fanSet,       \* history: Hub.clients when the current broadcast arrived
    fanCount,     \* history: enqueues per client by the current broadcast
    fanFull,      \* history: clients the current broadcast found full
    handed,       \* history: per connection, the frames it gave the Hub
    closes        \* history: per queue, the calls of close(client.send)

vars == << panels, writer, readers, clock, clients, hubpc, message, todo,
           send, closed, color, pc, msg, loc, buf, wp, conn, snappc, cur,
           img, nsnaps, files, mainpc, latest, panicked, nframes, pre, held, attempts, fanSet, fanCount,
           fanFull, handed, closes >>

gridVars == << panels, writer, readers >>
hubVars == << clients, hubpc, message, todo >>
mainVars == << mainpc, latest >>
snapVars == << snappc, cur, img, nsnaps, files, mainVars >>
fanVars == << fanSet, fanCount, fanFull, handed, closes >>

NoLoc == [panel |-> 0, x |-> 0, y |-> 0, now |-> 0]

NoCur == [i |-> 0, y |-> 0, x |-> 0]

(* image.NewRGBA: every pixel transparent black. *)
NewRGBA ==
    [pt \in (0..(cols * panelSize - 1)) \X (0..(rows * panelSize - 1)) |->
        <<0, 0, 0, 0>>]

Cells == (0..(numPanels - 1)) \X (0..(panelSize - 1)) \X (0..(panelSize - 1))

(* The process starts with the data directory holding fs; main is at  *)
(* "load" before loadLatestSnapshot and at "serve" once the Hub runs   *)
(* and connections are accepted.                                       *)
BootOn(grid, fs, at) ==
    /\ panels = grid
    /\ writer = NoOne
    /\ readers = {}
    /\ clock = 1
    /\ clients = {}
    /\ hubpc = "select"
    /\ message = <<>>
    /\ todo = {}
    /\ send = [c \in Clients |-> <<>>]
    /\ closed = [c \in Clients |-> FALSE]
    /\ color = [c \in Clients |-> <<0, 0, 0>>]
    /\ pc = [c \in Clients |-> "new"]
    /\ msg = [c \in Clients |-> NoFrame]
    /\ loc = [c \in Clients |-> NoLoc]
    /\ buf = [c \in Clients |-> <<>>]
    /\ wp = [c \in Clients |-> "off"]
    /\ conn = [c \in Clients |-> "open"]
    /\ snappc = "idle"
    /\ cur = NoCur
    /\ img = NewRGBA
    /\ nsnaps = 0
    /\ files = fs
    /\ mainpc = at
    /\ latest = <<>>
    /\ panicked = FALSE
    /\ nframes = 0
    /\ pre = [c \in Clients |-> Pixel(0, 0, 0, 0)]
    /\ held = [r \in Clients \cup {Timer} |-> ZeroPanels]
    /\ attempts = [cell \in Cells |-> {}]
    /\ fanSet = {}
    /\ fanCount = [c \in Clients |-> 0]
    /\ fanFull = {}
    /\ handed = [c \in Clients |-> <<>>]
    /\ closes = [c \in Clients |-> 0]

Boot(fs, at) == BootOn(ZeroPanels, fs, at)

(* The server is up, started on an empty data directory. *)
Init == Boot({}, "serve")

(* ------------------------------------------------------------------ *)
(* panelMutex (sync.RWMutex).                                          *)
(* ------------------------------------------------------------------ *)
CanLockDespiteReaders == writer = NoOne

CanLock == writer = NoOne /\ readers = {}

CanRLock == writer = NoOne

(* ------------------------------------------------------------------ *)
(* readPump: decoding and validating one frame.                        *)
(* ------------------------------------------------------------------ *)
UpdateInRangeOffByOne(panel, xx, yy) ==
    ~(panel < 0 \/ panel > numPanels \/ xx < 0 \/ xx > panelSize
        \/ yy < 0 \/ yy > panelSize)

UpdateInRange(panel, xx, yy) ==
    ~(panel < 0 \/ panel >= numPanels \/ xx < 0 \/ xx >= panelSize
        \/ yy < 0 \/ yy >= panelSize)

RequestInRange(panel) == ~(panel < 0 \/ panel >= numPanels)

(* What readPump does with a frame: "update", "request", or "drop" (the *)
(* continue statements and the default case).                          *)
DecodeData(d) ==
    IF Len(d) < 1 THEN [kind |-> "drop"]
    ELSE IF d[1] = MsgTypeUpdate THEN
        IF Len(d) < 5 THEN [kind |-> "drop"]
        ELSE LET panel == Uint16(SubSeq(d, 2, 3)) IN
             IF UpdateInRange(panel, d[4], d[5])
             THEN [kind |-> "update", panel |-> panel, x |-> d[4], y |-> d[5]]
             ELSE [kind |-> "drop"]
    ELSE IF d[1] = MsgTypeRequest THEN
        IF Len(d) < 3 THEN [kind |-> "drop"]
        ELSE LET panel == Uint16(SubSeq(d, 2, 3)) IN
             IF RequestInRange(panel)
             THEN [kind |-> "request", panel |-> panel]
             ELSE [kind |-> "drop"]
    ELSE [kind |-> "drop"]

DecodeAnyType(m) == DecodeData(m.data)

(* if msgType != websocket.BinaryMessage { continue } *)
Decode(m) ==
    IF m.messageType # BinaryMessage THEN [kind |-> "drop"]
    ELSE DecodeData(m.data)

(* ------------------------------------------------------------------ *)
(* serveWs.                                                            *)
(* ------------------------------------------------------------------ *)
(* The connection is upgraded, the client gets a random colour and its *)
(* AssignColor frame goes into the fresh, empty channel; the goroutine *)
(* then offers the client on hub.register.  Connections are numbered   *)
(* in their order of arrival.                                          *)
ServeWs(c, col) ==
    /\ ~panicked
    /\ mainpc = "serve"
    /\ pc[c] = "new"
    /\ \A d \in Clients : d < c => pc[d] # "new"
    /\ color' = [color EXCEPT ![c] = col]
    /\ send' = [send EXCEPT ![c] = Append(send[c], AssignMsg(col))]
    /\ pc' = [pc EXCEPT ![c] = "register"]
    /\ UNCHANGED << gridVars, clock, hubVars, closed, msg, loc, buf, wp,
                    conn, snapVars, panicked, nframes, pre, held, attempts,
                    fanVars >>

(* ------------------------------------------------------------------ *)
(* readPump.                                                           *)
(* ------------------------------------------------------------------ *)
(* c.conn.ReadMessage() returns a frame. *)
ReadMessage(c, m) ==
    /\ ~panicked
    /\ pc[c] = "read"
    /\ conn[c] = "open"
    /\ msg' = [msg EXCEPT ![c] = m]
    /\ nframes' = nframes + 1
    /\ pc' = [pc EXCEPT ![c] = "decode"]
    /\ UNCHANGED << gridVars, clock, hubVars, send, closed, color, loc, buf,
                    wp, conn, snapVars, panicked, pre, held, attempts, fanVars >>

(* The frame is decoded and validated; an Update in range reads the    *)
(* clock, a Request in range allocates its buffer, and any other frame *)
(* is dropped (continue).                                              *)
Dispatch(c) ==
    /\ ~panicked
    /\ pc[c] = "decode"
    /\ LET d == Decode(msg[c]) IN
        CASE d.kind = "update" ->
                /\ loc' = [loc EXCEPT ![c] =
                            [panel |-> d.panel, x |-> d.x, y |-> d.y,
                             now |-> clock]]
                /\ pc' = [pc EXCEPT ![c] = "lock"]
                /\ buf' = buf
          [] d.kind = "request" ->
                /\ loc' = [loc EXCEPT ![c] =
                            [panel |-> d.panel, x |-> 0, y |-> 0, now |-> 0]]
                /\ buf' = [buf EXCEPT ![c] = SyncHeader(d.panel)]
                /\ pc' = [pc EXCEPT ![c] = "rlock"]
          [] OTHER ->
                /\ pc' = [pc EXCEPT ![c] = "read"]
                /\ UNCHANGED << loc, buf >>
    /\ UNCHANGED << gridVars, clock, hubVars, send, closed, color, msg, wp,
                    conn, snapVars, panicked, nframes, pre, held, attempts,
                    fanVars >>

(* ReadMessage returns an error (the peer left, the read deadline      *)
(* passed, or the transport was closed): the loop breaks and the       *)
(* deferred function offers the client on hub.unregister.              *)
ReadError(c) ==
    /\ ~panicked
    /\ pc[c] = "read"
    /\ pc' = [pc EXCEPT ![c] = "unregister"]
    /\ UNCHANGED << gridVars, clock, hubVars, send, closed, color, msg, loc,
                    buf, wp, conn, snapVars, panicked, nframes, pre, held,
                    attempts, fanVars >>

Cell(c) == panels[loc[c].panel][loc[c].y][loc[c].x]

SetCell(c, field, v) ==
    panels' = [panels EXCEPT ![loc[c].panel][loc[c].y][loc[c].x][field] = v]

(* panelMutex.Lock() *)
Lock(c) ==
    /\ ~panicked
    /\ pc[c] = "lock"
    /\ CanLock
    /\ writer' = c
    /\ pre' = [pre EXCEPT ![c] = Cell(c)]
    /\ pc' = [pc EXCEPT ![c] = "cmp"]
    /\ UNCHANGED << panels, readers, clock, hubVars, send, closed, color, msg,
                    loc, buf, wp, conn, snapVars, panicked, nframes, held,
                    attempts, fanVars >>

NewerOrEqual(now, ts) == now >= ts

Whatever(now, ts) == TRUE

(* if now > p.Timestamp *)
Newer(now, ts) == now > ts

Cmp(c) ==
    /\ ~panicked
    /\ pc[c] = "cmp"
    /\ pc' = [pc EXCEPT ![c] =
                IF Newer(loc[c].now, Cell(c).Timestamp) THEN "setR" ELSE "unlock"]
    /\ UNCHANGED << gridVars, clock, hubVars, send, closed, color, msg, loc,
                    buf, wp, conn, snapVars, panicked, nframes, pre, held,
                    attempts, fanVars >>

(* p.R = rVal; p.G = gVal; p.B = bVal; p.Timestamp = now *)
SetField(c, at, field, v, next) ==
    /\ ~panicked
    /\ pc[c] = at
    /\ SetCell(c, field, v)
    /\ pc' = [pc EXCEPT ![c] = next]
    /\ UNCHANGED << writer, readers, clock, hubVars, send, closed, color, msg,
                    loc, buf, wp, conn, snapVars, panicked, nframes, pre, held,
                    attempts, fanVars >>

SetR(c) == SetField(c, "setR", "R", color[c][1], "setG")
SetG(c) == SetField(c, "setG", "G", color[c][2], "setB")
SetB(c) == SetField(c, "setB", "B", color[c][3], "setT")
SetT(c) == SetField(c, "setT", "Timestamp", loc[c].now, "unlock")

(* panelMutex.Unlock() *)
Unlock(c) ==
    /\ ~panicked
    /\ pc[c] = "unlock"
    /\ writer' = NoOne
    /\ attempts' = [attempts EXCEPT ![<<loc[c].panel, loc[c].y, loc[c].x>>] =
                        @ \cup { <<loc[c].now, color[c]>> }]
    /\ pc' = [pc EXCEPT ![c] = "bcast"]
    /\ UNCHANGED << panels, readers, clock, hubVars, send, closed, color, msg,
                    loc, buf, wp, conn, snapVars, panicked, nframes, pre, held,
                    fanVars >>

(* A blocking send of frame f on c's own channel: it panics when the   *)
(* channel is closed and waits while the buffer is full.               *)
OwnSend(c, at, f) ==
    /\ ~panicked
    /\ pc[c] = at
    /\ \/ /\ closed[c]
          /\ panicked' = TRUE
          /\ UNCHANGED << send, pc, buf >>
       \/ /\ ~closed[c]
          /\ Len(send[c]) < QueueCap
          /\ send' = [send EXCEPT ![c] = Append(send[c], f)]
          /\ pc' = [pc EXCEPT ![c] = "read"]
          /\ buf' = [buf EXCEPT ![c] = <<>>]
          /\ UNCHANGED panicked
    /\ UNCHANGED << gridVars, clock, hubVars, closed, color, msg, loc, wp,
                    conn, snapVars, nframes, pre, held, attempts, fanVars >>

(* c.send <- ack *)
SendAck(c) == OwnSend(c, "ack", AckMsg)

(* panelMutex.RLock() *)
RLock(c) ==
    /\ ~panicked
    /\ pc[c] = "rlock"
    /\ CanRLock
    /\ readers' = readers \cup {c}
    /\ held' = [held EXCEPT ![c] = panels]
    /\ pc' = [pc EXCEPT ![c] = "copy"]
    /\ UNCHANGED << panels, writer, clock, hubVars, send, closed, color, msg,
                    loc, buf, wp, conn, snapVars, panicked, nframes, pre,
                    attempts, fanVars >>

(* One pass of the inner loop: p := panels[panel][y][x], three bytes.  *)
CopyCell(c) ==
    /\ ~panicked
    /\ pc[c] = "copy"
    /\ LET p == Cell(c)
           lastX == loc[c].x = panelSize - 1
           lastY == loc[c].y = panelSize - 1
       IN /\ buf' = [buf EXCEPT ![c] = @ \o <<p.R, p.G, p.B>>]
          /\ loc' = [loc EXCEPT ![c].x = IF lastX THEN 0 ELSE @ + 1,
                                ![c].y = IF lastX /\ ~lastY THEN @ + 1
                                         ELSE IF lastX THEN 0 ELSE @]
          /\ pc' = [pc EXCEPT ![c] = IF lastX /\ lastY THEN "runlock" ELSE "copy"]
    /\ UNCHANGED << gridVars, clock, hubVars, send, closed, color, msg, wp,
                    conn, snapVars, panicked, nframes, pre, held, attempts,
                    fanVars >>

(* panelMutex.RUnlock() *)
RUnlock(c) ==
    /\ ~panicked
    /\ pc[c] = "runlock"
    /\ readers' = readers \ {c}
    /\ held' = [held EXCEPT ![c] = ZeroPanels]
    /\ pc' = [pc EXCEPT ![c] = "sync"]
    /\ UNCHANGED << panels, writer, clock, hubVars, send, closed, color, msg,
                    loc, buf, wp, conn, snapVars, panicked, nframes, pre,
                    attempts, fanVars >>

(* c.send <- the PanelSync frame *)
SendSync(c) == OwnSend(c, "sync", buf[c])

(* ------------------------------------------------------------------ *)
(* Hub.run: one select per command.  The channels are unbuffered, so   *)
(* a command is taken in one step with the goroutine offering it.      *)
(* ------------------------------------------------------------------ *)
(* case client := <-h.register; serveWs then starts both pumps.        *)
HubRegister(c) ==
    /\ ~panicked
    /\ hubpc = "select"
    /\ pc[c] = "register"
    /\ clients' = clients \cup {c}
    /\ pc' = [pc EXCEPT ![c] = "read"]
    /\ wp' = [wp EXCEPT ![c] = "run"]
    /\ UNCHANGED << gridVars, clock, hubpc, message, todo, send, closed,
                    color, msg, loc, buf, conn, snapVars, panicked, nframes,
                    pre, held, attempts, fanVars >>

(* close(client.send): closing a closed channel panics. *)
Close(c) ==
    /\ closes' = [closes EXCEPT ![c] = @ + 1]
    /\ IF closed[c]
       THEN panicked' = TRUE /\ closed' = closed
       ELSE closed' = [closed EXCEPT ![c] = TRUE] /\ panicked' = panicked

UnregisterUnchecked(c) == clients' = clients \ {c} /\ Close(c)

(* case client := <-h.unregister; readPump then closes the transport.  *)
Unregister(c) ==
    IF c \in clients
    THEN clients' = clients \ {c} /\ Close(c)
    ELSE UNCHANGED << clients, closed, panicked, closes >>

HubUnregister(c) ==
    /\ ~panicked
    /\ hubpc = "select"
    /\ pc[c] = "unregister"
    /\ Unregister(c)
    /\ pc' = [pc EXCEPT ![c] = "closed"]
    /\ conn' = [conn EXCEPT ![c] = "closed"]
    /\ UNCHANGED << gridVars, clock, hubpc, message, todo, send, color, msg,
                    loc, buf, wp, snapVars, nframes, pre, held, attempts,
                    fanSet, fanCount, fanFull, handed >>

EverRegistered == { c \in Clients : pc[c] \notin {"new", "register"} }

(* for client := range h.clients *)
RangeClients == clients

(* case message := <-h.broadcast *)
HubBroadcast(c) ==
    /\ ~panicked
    /\ hubpc = "select"
    /\ pc[c] = "bcast"
    /\ message' = BcastMsg(loc[c].panel, loc[c].x, loc[c].y, color[c], loc[c].now)
    /\ todo' = RangeClients
    /\ hubpc' = IF RangeClients = {} THEN "select" ELSE "range"
    /\ pc' = [pc EXCEPT ![c] = "ack"]
    /\ fanSet' = clients
    /\ fanCount' = [d \in Clients |-> 0]
    /\ fanFull' = {}
    /\ handed' = [handed EXCEPT ![c] = Append(@, message')]
    /\ UNCHANGED << gridVars, clock, clients, send, closed, color, msg, loc,
                    buf, wp, conn, snapVars, panicked, nframes, pre, held,
                    attempts, closes >>

Revisit(d) == todo

(* What is left of the range after the pass over client d. *)
Rest(d) == todo \ {d}

CloseOnly(d) == Close(d) /\ clients' = clients

(* default: close(client.send); delete(h.clients, client) *)
Evict(d) == Close(d) /\ clients' = clients \ {d}

DeliverFirst(q, m) == <<m>> \o q

(* case client.send <- message: the frame joins the end of the buffer. *)
Deliver(q, m) == Append(q, m)

(* One pass of the range loop, over client d:                          *)
(*   select { case client.send <- message: default: close; delete }    *)
(* A send on a closed channel panics; the send is taken when the       *)
(* buffer has room.                                                    *)
HubRange(d) ==
    /\ ~panicked
    /\ hubpc = "range"
    /\ d \in todo
    /\ IF closed[d]
       THEN /\ panicked' = TRUE
            /\ UNCHANGED << send, closed, clients, closes >>
       ELSE IF Len(send[d]) < QueueCap
       THEN /\ send' = [send EXCEPT ![d] = Deliver(send[d], message)]
            /\ UNCHANGED << closed, clients, panicked, closes >>
       ELSE /\ Evict(d)
            /\ UNCHANGED send
    /\ fanCount' = [fanCount EXCEPT ![d] = @ + Len(send'[d]) - Len(send[d])]
    /\ fanFull' = IF Len(send[d]) >= QueueCap THEN fanFull \cup {d} ELSE fanFull
    /\ todo' = Rest(d)
    /\ hubpc' = IF Rest(d) = {} THEN "select" ELSE "range"
    /\ UNCHANGED << gridVars, clock, message, color, pc, msg, loc, buf, wp,
                    conn, snapVars, nframes, pre, held, attempts, fanSet,
                    handed >>

(* ------------------------------------------------------------------ *)
(* writePump.                                                          *)
(* ------------------------------------------------------------------ *)
(* case m, ok := <-c.send, with ok: the frame is written; the write    *)
(* may fail, and does when the transport is closed.                    *)
WriteMessage(c, ok) ==
    /\ ~panicked
    /\ wp[c] = "run"
    /\ send[c] # <<>>
    /\ ok => conn[c] = "open"
    /\ send' = [send EXCEPT ![c] = Tail(send[c])]
    /\ wp' = [wp EXCEPT ![c] = IF ok THEN "run" ELSE "done"]
    /\ conn' = [conn EXCEPT ![c] = IF ok THEN @ ELSE "closed"]
    /\ UNCHANGED << gridVars, clock, hubVars, closed, color, pc, msg, loc,
                    buf, snapVars, panicked, nframes, pre, held, attempts,
                    fanVars >>

(* case m, ok := <-c.send, with !ok: the channel is closed and empty.  *)
WriteClose(c) ==
    /\ ~panicked
    /\ wp[c] = "run"
    /\ send[c] = <<>>
    /\ closed[c]
    /\ wp' = [wp EXCEPT ![c] = "done"]
    /\ conn' = [conn EXCEPT ![c] = "closed"]
    /\ UNCHANGED << gridVars, clock, hubVars, send, closed, color, pc, msg,
                    loc, buf, snapVars, panicked, nframes, pre, held, attempts,
                    fanVars >>

(* case <-ticker.C, and the ping cannot be written.                    *)
PingError(c) ==
    /\ ~panicked
    /\ wp[c] = "run"
    /\ wp' = [wp EXCEPT ![c] = "done"]
    /\ conn' = [conn EXCEPT ![c] = "closed"]
    /\ UNCHANGED << gridVars, clock, hubVars, send, closed, color, pc, msg,
                    loc, buf, snapVars, panicked, nframes, pre, held, attempts,
                    fanVars >>

(* ------------------------------------------------------------------ *)
(* The snapshot timer: snapshotPanels.                                 *)
(* ------------------------------------------------------------------ *)
SnapRLock ==
    /\ ~panicked
    /\ mainpc = "serve"
    /\ snappc = "idle"
    /\ nsnaps < MaxSnapshots
    /\ CanRLock
    /\ readers' = readers \cup {Timer}
    /\ held' = [held EXCEPT ![Timer] = panels]
    /\ img' = NewRGBA
    /\ cur' = NoCur
    /\ nsnaps' = nsnaps + 1
    /\ snappc' = "copy"
    /\ UNCHANGED << panels, writer, clock, hubVars, send, closed, color, pc,
                    msg, loc, buf, wp, conn, files, mainVars, panicked, nframes,
                    pre,
                    attempts, fanVars >>

(* Where panel i's pixel (x, y) goes in the image. *)
ImagePoint(i, xx, yy) ==
    << (i % cols) * panelSize + xx, (i \div cols) * panelSize + yy >>

(* One pass of the innermost loop: img.Set(xOffset+x, yOffset+y, c).   *)
SnapSet ==
    /\ ~panicked
    /\ snappc = "copy"
    /\ LET p == panels[cur.i][cur.y][cur.x]
           lastX == cur.x = panelSize - 1
           lastY == cur.y = panelSize - 1
           lastI == cur.i = numPanels - 1
       IN /\ img' = [img EXCEPT ![ImagePoint(cur.i, cur.x, cur.y)] =
                        <<p.R, p.G, p.B, 255>>]
          /\ cur' = [x |-> IF lastX THEN 0 ELSE cur.x + 1,
                     y |-> IF ~lastX THEN cur.y
                           ELSE IF lastY THEN 0 ELSE cur.y + 1,
                     i |-> IF lastX /\ lastY /\ ~lastI THEN cur.i + 1
                           ELSE IF lastX /\ lastY THEN 0 ELSE cur.i]
          /\ snappc' = IF lastX /\ lastY /\ lastI THEN "unlock" ELSE "copy"
    /\ UNCHANGED << gridVars, clock, hubVars, send, closed, color, pc, msg,
                    loc, buf, wp, conn, nsnaps, files, mainVars, panicked,
                    nframes, pre,
                    held, attempts, fanVars >>

SnapRUnlock ==
    /\ ~panicked
    /\ snappc = "unlock"
    /\ readers' = readers \ {Timer}
    /\ snappc' = "save"
    /\ UNCHANGED << panels, writer, clock, hubVars, send, closed, color, pc,
                    msg, loc, buf, wp, conn, cur, img, nsnaps, files, mainVars,
                    panicked,
                    nframes, pre, held, attempts, fanVars >>

(* The file is named by the clock and written, or cannot be created.   *)
SnapSave(ok) ==
    /\ ~panicked
    /\ snappc = "save"
    /\ files' = IF ok
                THEN Create(files, FileName(clock), PngEncode(img), held[Timer])
                ELSE files
    /\ snappc' = "idle"
    /\ UNCHANGED << gridVars, clock, hubVars, send, closed, color, pc, msg,
                    loc, buf, wp, conn, cur, img, nsnaps, mainVars, panicked,
                    nframes, pre, held, attempts, fanVars >>

(* os.Create succeeds and png.Encode fails: the file stays, cut short. *)
SnapEncodeError ==
    /\ ~panicked
    /\ snappc = "save"
    /\ files' = Create(files, FileName(clock), Undecodable, held[Timer])
    /\ snappc' = "idle"
    /\ UNCHANGED << gridVars, clock, hubVars, send, closed, color, pc, msg,
                    loc, buf, wp, conn, cur, img, nsnaps, mainVars, panicked,
                    nframes, pre, held, attempts, fanVars >>

(* ------------------------------------------------------------------ *)
(* main: loadLatestSnapshot, then the Hub and the listener.  Nothing   *)
(* else runs during the load, so it is one step.                       *)
(* ------------------------------------------------------------------ *)
(* The names loadLatestSnapshot collects from the data directory. *)
Snapshots == { f.name : f \in files }

FileNamed(n) == CHOOSE f \in files : f.name = n

AnySize(e) == TRUE

(* bounds.Dx() != expectedWidth || bounds.Dy() != expectedHeight *)
Fits(e) == ~(Dx(e) # cols * panelSize \/ Dy(e) # rows * panelSize)

RestorePointByRows(i, xx, yy) ==
    << (i \div cols) * panelSize + xx, (i % cols) * panelSize + yy >>

(* Where loadLatestSnapshot reads panel i's pixel (x, y). *)
RestorePoint(i, xx, yy) ==
    << (i % cols) * panelSize + xx, (i \div cols) * panelSize + yy >>

RestoredPixelNow(c) == Pixel(c[1], c[2], c[3], clock)

(* panels[i][y][x].R = c.R; .G = c.G; .B = c.B; .Timestamp = 0 *)
RestoredPixel(c) == Pixel(c[1], c[2], c[3], 0)

(* The loop over the panels. *)
Restored(e) ==
    [i \in 0..(numPanels - 1) |->
        [yy \in 0..(panelSize - 1) |->
            [xx \in 0..(panelSize - 1) |->
                RestoredPixel(ColorAt(e, RestorePoint(i, xx, yy)))]]]

(* readOk, openOk, decodeOk: whether os.ReadDir, os.Open and the read  *)
(* of the file by png.Decode succeed.                                  *)
LoadLatestSnapshot(readOk, openOk, decodeOk) ==
    /\ ~panicked
    /\ mainpc = "load"
    /\ IF ~readOk \/ Snapshots = {}
       THEN /\ mainpc' = "skipped"
            /\ UNCHANGED << panels, latest >>
       ELSE LET e == FileNamed(LatestName(Snapshots)).image IN
            /\ latest' = LatestName(Snapshots)
            /\ IF openOk /\ decodeOk /\ e # Undecodable /\ Fits(e)
               THEN panels' = Restored(e) /\ mainpc' = "loaded"
               ELSE panels' = panels /\ mainpc' = "skipped"
    /\ UNCHANGED << writer, readers, clock, hubVars, send, closed, color, pc,
                    msg, loc, buf, wp, conn, snappc, cur, img, nsnaps, files,
                    panicked, nframes, pre, held, attempts, fanVars >>

(* hub := newHub(); go hub.run(); the timer; http.ListenAndServe *)
StartHub ==
    /\ ~panicked
    /\ mainpc \in {"loaded", "skipped"}
    /\ mainpc' = "serve"
    /\ UNCHANGED << gridVars, clock, hubVars, send, closed, color, pc, msg,
                    loc, buf, wp, conn, snappc, cur, img, nsnaps, files,
                    latest, panicked, nframes, pre, held, attempts, fanVars >>

(* The process ends, by a panic or from outside, and is started again: *)
(* the memory is new, the data directory and the clock are not.        *)
Restart ==
    /\ mainpc = "serve"
    /\ panels' = ZeroPanels
    /\ writer' = NoOne
    /\ readers' = {}
    /\ clients' = {}
    /\ hubpc' = "select"
    /\ message' = <<>>
    /\ todo' = {}
    /\ send' = [c \in Clients |-> <<>>]
    /\ closed' = [c \in Clients |-> FALSE]
    /\ color' = [c \in Clients |-> <<0, 0, 0>>]
    /\ pc' = [c \in Clients |-> "new"]
    /\ msg' = [c \in Clients |-> NoFrame]
    /\ loc' = [c \in Clients |-> NoLoc]
    /\ buf' = [c \in Clients |-> <<>>]
    /\ wp' = [c \in Clients |-> "off"]
    /\ conn' = [c \in Clients |-> "open"]
    /\ snappc' = "idle"
    /\ cur' = NoCur
    /\ img' = NewRGBA
    /\ mainpc' = "load"
    /\ latest' = <<>>
    /\ panicked' = FALSE
    /\ pre' = [c \in Clients |-> Pixel(0, 0, 0, 0)]
    /\ held' = [r \in Clients \cup {Timer} |-> ZeroPanels]
    /\ attempts' = [cell \in Cells |-> {}]
    /\ fanSet' = {}
    /\ fanCount' = [c \in Clients |-> 0]
    /\ fanFull' = {}
    /\ handed' = [c \in Clients |-> <<>>]
    /\ closes' = [c \in Clients |-> 0]
    /\ UNCHANGED << clock, files, nframes, nsnaps >>

(* Time passes. *)
Tick ==
    /\ ~panicked
    /\ clock < MaxTime
    /\ clock' = clock + 1
    /\ UNCHANGED << gridVars, hubVars, send, closed, color, pc, msg, loc, buf,
                    wp, conn, snapVars, panicked, nframes, pre, held, attempts,
                    fanVars >>

(* ------------------------------------------------------------------ *)
(* The program's steps, and the environments it is checked in.  (A     *)
(* panic ends the process: no step is taken after it.)                 *)
(* ------------------------------------------------------------------ *)
Connect ==
    \/ \E c \in Clients : \E col \in Colours(c) : ServeWs(c, col)
    \/ \E c \in Clients : HubRegister(c)

UpdatePath ==
    \/ \E c \in Clients : Dispatch(c)
    \/ \E c \in Clients : Lock(c)
    \/ \E c \in Clients : Cmp(c)
    \/ \E c \in Clients : SetR(c)
    \/ \E c \in Clients : SetG(c)
    \/ \E c \in Clients : SetB(c)
    \/ \E c \in Clients : SetT(c)
    \/ \E c \in Clients : Unlock(c)
    \/ \E c \in Clients : HubBroadcast(c)
    \/ \E d \in Clients : HubRange(d)
    \/ \E c \in Clients : SendAck(c)

RequestPath ==
    \/ \E c \in Clients : RLock(c)
    \/ \E c \in Clients : CopyCell(c)
    \/ \E c \in Clients : RUnlock(c)
    \/ \E c \in Clients : SendSync(c)

Snapshot ==
    \/ SnapRLock
    \/ SnapSet
    \/ SnapRUnlock
    \/ \E ok \in BOOLEAN : SnapSave(ok)
    \/ SnapEncodeError

Startup ==
    \/ \E readOk, openOk, decodeOk \in BOOLEAN :
            LoadLatestSnapshot(readOk, openOk, decodeOk)
    \/ StartHub

Disconnect ==
    \/ \E c \in Clients : ReadError(c)
    \/ \E c \in Clients : HubUnregister(c)
    \/ \E c \in Clients : WriteClose(c)

(* The peers send at most n frames. *)
Budget(n) == nframes < n

HubFrames == MaxFrames + 1

Updates == { Binary(UpdateFrame(t)) : t \in InRangeTargets }
Requests == { Binary(RequestFrame(p)) : p \in {0, LastPanel} }
FirstCellUpdates == { Binary(UpdateFrame(<<0, 0, 0>>)) }

(* Every goroutine, every frame, every transport error. *)
Next ==
    \/ Connect
    \/ \E c \in Clients, m \in Inbound : Budget(MaxFrames) /\ ReadMessage(c, m)
    \/ UpdatePath
    \/ RequestPath
    \/ \E c \in Clients, ok \in BOOLEAN : WriteMessage(c, ok)
    \/ \E c \in Clients : PingError(c)
    \/ Disconnect
    \/ Snapshot
    \/ Tick
    \/ Restart
    \/ Startup

Spec == Init /\ [][Next]_vars

(* Writers: peers that send Updates in range while time passes; no     *)
(* transport fails and the snapshot timer does not fire.               *)
NextWrite ==
    \/ Connect
    \/ \E c \in Clients, m \in Updates : Budget(MaxFrames) /\ ReadMessage(c, m)
    \/ UpdatePath
    \/ \E c \in Clients : WriteMessage(c, TRUE)
    \/ Tick

SpecWrite == Init /\ [][NextWrite]_vars

(* Readers and writers: peers that send Updates and Requests in range  *)
(* while the snapshot timer fires, within one reading of the clock.    *)
NextRead ==
    \/ Connect
    \/ \E c \in Clients, m \in Updates \cup Requests :
            Budget(MaxFrames) /\ ReadMessage(c, m)
    \/ UpdatePath
    \/ RequestPath
    \/ \E c \in Clients : WriteMessage(c, TRUE)
    \/ Snapshot

SpecRead == Init /\ [][NextRead]_vars

(* Any frame: peers that send every frame of Inbound, within one       *)
(* reading of the clock.                                               *)
NextDecode ==
    \/ Connect
    \/ \E c \in Clients, m \in Inbound : Budget(MaxFrames) /\ ReadMessage(c, m)
    \/ UpdatePath
    \/ RequestPath
    \/ \E c \in Clients : WriteMessage(c, TRUE)

SpecDecode == Init /\ [][NextDecode]_vars

(* Membership: peers that send Updates of the first cell and leave,    *)
(* within one reading of the clock.                                    *)
NextHub ==
    \/ Connect
    \/ \E c \in Clients, m \in FirstCellUpdates : Budget(HubFrames) /\ ReadMessage(c, m)
    \/ UpdatePath
    \/ \E c \in Clients : WriteMessage(c, TRUE)
    \/ Disconnect

SpecHub == Init /\ [][NextHub]_vars

(* The Hub goroutine: a step of Hub.run.                               *)
HubStep ==
    \/ \E c \in Clients : HubRegister(c)
    \/ \E c \in Clients : HubUnregister(c)
    \/ \E c \in Clients : HubBroadcast(c)
    \/ \E d \in Clients : HubRange(d)

(* The same peers, with the scheduler running the Hub goroutine        *)
(* whenever it can take a step.                                        *)
SpecHubFair == SpecHub /\ WF_vars(HubStep)

(* Leaving: peers that send Updates of the first cell while reads,     *)
(* writes and pings fail at any time.                                  *)
NextLeave ==
    \/ Connect
    \/ \E c \in Clients, m \in FirstCellUpdates :
            Budget(MaxFrames) /\ ReadMessage(c, m)
    \/ UpdatePath
    \/ \E c \in Clients, ok \in BOOLEAN : WriteMessage(c, ok)
    \/ \E c \in Clients : PingError(c)
    \/ Disconnect

SpecLeave == Init /\ [][NextLeave]_vars

(* The read loop of c, between two reads; a read on a transport that   *)
(* is closed returns an error.                                         *)
ReadPumpStep(c) ==
    \/ Dispatch(c)
    \/ Lock(c)
    \/ Cmp(c)
    \/ SetR(c)
    \/ SetG(c)
    \/ SetB(c)
    \/ SetT(c)
    \/ Unlock(c)
    \/ SendAck(c)
    \/ conn[c] = "closed" /\ ReadError(c)

(* The write loop of c when its channel is ready.                      *)
WritePumpStep(c) ==
    \/ \E ok \in BOOLEAN : WriteMessage(c, ok)
    \/ WriteClose(c)

(* The same peers, with the scheduler running every goroutine that can *)
(* take a step.                                                        *)
SpecLeaveFair ==
    /\ SpecLeave
    /\ WF_vars(HubStep)
    /\ \A c \in Clients : WF_vars(ReadPumpStep(c))
    /\ \A c \in Clients : WF_vars(WritePumpStep(c))

(* Persistence: peers paint two cells, one of them off the diagonal of *)
(* the last panel; the timer fires; the process is started again on    *)
(* what the data directory then holds.                                 *)
SkewTargets == { <<0, 0, 0>>, <<LastPanel, LastCoord, 0>> }

SkewUpdates == { Binary(UpdateFrame(t)) : t \in SkewTargets }

NextRestart ==
    \/ Connect
    \/ \E c \in Clients, m \in SkewUpdates :
            Budget(MaxFrames) /\ ReadMessage(c, m)
    \/ UpdatePath
    \/ \E c \in Clients : WriteMessage(c, TRUE)
    \/ Snapshot
    \/ Restart
    \/ Startup

SpecRestart == Init /\ [][NextRestart]_vars

(* Startup: the process starts on a data directory left by earlier     *)
(* runs.  The file names are times in seconds on both sides of a       *)
(* change in the number of digits; a file holds the picture of a       *)
(* painted grid, a picture of another size, or no picture.             *)
Stamps == {9, 10, 11}

SampleGrid ==
    [i \in 0..(numPanels - 1) |->
        [yy \in 0..(panelSize - 1) |->
            [xx \in 0..(panelSize - 1) |-> Pixel(i + 1, yy + 1, xx + 1, 1)]]]

(* The image snapshotPanels builds of grid g. *)
ImageOf(g) ==
    [pt \in DOMAIN NewRGBA |->
        LET cell == CHOOSE k \in Cells : ImagePoint(k[1], k[3], k[2]) = pt
            px == g[cell[1]][cell[2]][cell[3]]
        IN  <<px.R, px.G, px.B, 255>>]

OnePixel == [pt \in {<<0, 0>>} |-> <<1, 2, 3, 255>>]

SampleFiles(t) ==
    { [name |-> FileName(t), image |-> PngEncode(ImageOf(SampleGrid)),
       grid |-> SampleGrid],
      [name |-> FileName(t), image |-> PngEncode(OnePixel),
       grid |-> ZeroPanels],
      [name |-> FileName(t), image |-> Undecodable, grid |-> ZeroPanels] }

DataDirs ==
    UNION { { { pick[t] : t \in T } :
                pick \in { f \in [T -> UNION { SampleFiles(t) : t \in T }] :
                              \A t \in T : f[t] \in SampleFiles(t) } } :
            T \in SUBSET Stamps }

InitStartup == \E fs \in DataDirs : Boot(fs, "load")

NextStartup ==
    \/ Startup
    \/ Connect

SpecStartup == InitStartup /\ [][NextStartup]_vars

(* ------------------------------------------------------------------ *)
(* The earlier generation (server.go, lines 1-300): 1920 panels, the   *)
(* panel number in one byte, and a serveWs that registers the client   *)
(* and then sends a full sync of all panels before it starts the two   *)
(* pumps.  The Hub, the channel and panelMutex are the same.           *)
(* ------------------------------------------------------------------ *)
numPanelsV1 == 1920

Bytes == 0..255

(* byte(panel) *)
Byte(v) == v % 256

(* panel := int(data[1]) of an Update or a Request. *)
PanelOfV1(data) == data[2]

(* buf[0] = MsgTypePanelSync; buf[1] = byte(panel) *)
SyncHeaderV1(panel) == <<MsgTypePanelSync, Byte(panel)>>

ZeroPanelsV1 ==
    [p \in 0..(numPanelsV1 - 1) |->
        [yy \in 0..(panelSize - 1) |->
            [xx \in 0..(panelSize - 1) |-> Pixel(0, 0, 0, 0)]]]

(* The connection is upgraded and the client, with a fresh channel, is *)
(* offered on hub.register.                                            *)
ServeWsV1(c) ==
    /\ ~panicked
    /\ pc[c] = "new"
    /\ \A d \in Clients : d < c => pc[d] # "new"
    /\ pc' = [pc EXCEPT ![c] = "register"]
    /\ UNCHANGED << gridVars, clock, hubVars, send, closed, color, msg, loc,
                    buf, wp, conn, snapVars, panicked, nframes, pre, held,
                    attempts, fanVars >>

(* case client := <-h.register; serveWs goes on to syncPanels. *)
HubRegisterV1(c) ==
    /\ ~panicked
    /\ hubpc = "select"
    /\ pc[c] = "register"
    /\ clients' = clients \cup {c}
    /\ loc' = [loc EXCEPT ![c] = NoLoc]
    /\ pc' = [pc EXCEPT ![c] = "panel"]
    /\ UNCHANGED << gridVars, clock, hubpc, message, todo, send, closed,
                    color, msg, buf, wp, conn, snapVars, panicked, nframes,
                    pre, held, attempts, fanVars >>

(* One pass of syncPanels' loop starts: the buffer and its header.     *)
SyncBufferV1(c) ==
    /\ ~panicked
    /\ pc[c] = "panel"
    /\ buf' = [buf EXCEPT ![c] = SyncHeaderV1(loc[c].panel)]
    /\ pc' = [pc EXCEPT ![c] = "rlock"]
    /\ UNCHANGED << gridVars, clock, hubVars, send, closed, color, msg, loc,
                    wp, conn, snapVars, panicked, nframes, pre, held,
                    attempts, fanVars >>

(* c.send <- the frame, a blocking send; then the next panel, or, the  *)
(* loop over, go client.writePump() and go client.readPump().  A send  *)
(* on a closed channel panics in the handler, which net/http ends.     *)
SendSyncV1(c) ==
    /\ ~panicked
    /\ pc[c] = "sync"
    /\ IF closed[c]
       THEN /\ pc' = [pc EXCEPT ![c] = "aborted"]
            /\ UNCHANGED << send, loc, buf, wp >>
       ELSE /\ Len(send[c]) < QueueCap
            /\ send' = [send EXCEPT ![c] = Append(send[c], buf[c])]
            /\ buf' = [buf EXCEPT ![c] = <<>>]
            /\ loc' = [loc EXCEPT ![c].panel = @ + 1]
            /\ pc' = [pc EXCEPT ![c] =
                        IF loc[c].panel + 1 < numPanelsV1 THEN "panel" ELSE "read"]
            /\ wp' = [wp EXCEPT ![c] =
                        IF loc[c].panel + 1 < numPanelsV1 THEN @ ELSE "run"]
    /\ UNCHANGED << gridVars, clock, hubVars, closed, color, msg, conn,
                    snapVars, panicked, nframes, pre, held, attempts,
                    fanVars >>

(* The handler goroutine of c inside syncPanels; the read of the panel *)
(* under panelMutex is the loop the later generation has too.          *)
SyncPanelsV1(c) ==
    \/ SyncBufferV1(c)
    \/ RLock(c)
    \/ CopyCell(c)
    \/ RUnlock(c)
    \/ SendSyncV1(c)

InitV1 == BootOn(ZeroPanelsV1, {}, "serve")

NextV1 ==
    \/ \E c \in Clients : ServeWsV1(c)
    \/ \E c \in Clients : HubRegisterV1(c)
    \/ \E c \in Clients : SyncPanelsV1(c)

SpecV1 == InitV1 /\ [][NextV1]_vars

(* syncPanels alone, taken at any pass of its loop with the channel    *)
(* empty: the passes drawn are the first, those on both sides of the   *)
(* end of a byte, and the last two.                                    *)
SamplePassesV1 == {0, 255, 256, numPanelsV1 - 2}

InitV1Pass ==
    \E at \in [Clients -> SamplePassesV1] :
        /\ panels = ZeroPanelsV1
        /\ writer = NoOne
        /\ readers = {}
        /\ clock = 1
        /\ clients = Clients
        /\ hubpc = "select"
        /\ message = <<>>
        /\ todo = {}
        /\ send = [c \in Clients |-> <<>>]
        /\ closed = [c \in Clients |-> FALSE]
        /\ color = [c \in Clients |-> <<0, 0, 0>>]
        /\ pc = [c \in Clients |-> "panel"]
        /\ msg = [c \in Clients |-> NoFrame]
        /\ loc = [c \in Clients |-> [NoLoc EXCEPT !.panel = at[c]]]
        /\ buf = [c \in Clients |-> <<>>]
        /\ wp = [c \in Clients |-> "off"]
        /\ conn = [c \in Clients |-> "open"]
        /\ snappc = "idle"
        /\ cur = NoCur
        /\ img = NewRGBA
        /\ nsnaps = 0
        /\ files = {}
        /\ mainpc = "serve"
        /\ latest = <<>>
        /\ panicked = FALSE
        /\ nframes = 0
        /\ pre = [c \in Clients |-> Pixel(0, 0, 0, 0)]
        /\ held = [r \in Clients \cup {Timer} |-> ZeroPanels]
        /\ attempts = [cell \in Cells |-> {}]
        /\ fanSet = {}
        /\ fanCount = [c \in Clients |-> 0]
        /\ fanFull = {}
        /\ handed = [c \in Clients |-> <<>>]
        /\ closes = [c \in Clients |-> 0]

NextV1Pass == \E c \in Clients : SyncPanelsV1(c)

SpecV1Pass == InitV1Pass /\ [][NextV1Pass]_vars

(* The same, with the scheduler running the Hub and every handler that *)
(* can take a step.                                                    *)
SpecV1Fair ==
    /\ SpecV1
    /\ WF_vars(\E c \in Clients : HubRegisterV1(c))
    /\ \A c \in Clients : WF_vars(SyncPanelsV1(c))

(* ------------------------------------------------------------------ *)
(* Properties.                                                         *)
(* ------------------------------------------------------------------ *)
Target(c) == <<loc[c].panel, loc[c].y, loc[c].x>>

At(cell) == panels[cell[1]][cell[2]][cell[3]]

Painted(col, ts) == Pixel(col[1], col[2], col[3], ts)

(* The connection holds the write lock. *)
Writing(c) == pc[c] \in {"cmp", "setR", "setG", "setB", "setT", "unlock"}

(* C1: when an Update's write section is over (the lock is about to be  *)
(* released), its cell holds the Update's colour and timestamp if that  *)
(* timestamp is strictly greater than the one the cell had when the     *)
(* lock was taken, and otherwise the four values it had then.           *)
LastWriteWins ==
    \A c \in Clients :
        pc[c] = "unlock" =>
            IF loc[c].now > pre[c].Timestamp
            THEN At(Target(c)) = Painted(color[c], loc[c].now)
            ELSE At(Target(c)) = pre[c]

(* C1 witness: an Update with a later timestamp has overwritten a cell  *)
(* that another connection had painted in another colour.               *)
LastWriteWinsWitness ==
    \E c \in Clients :
        /\ pc[c] = "unlock"
        /\ pre[c].Timestamp > 0
        /\ loc[c].now > pre[c].Timestamp
        /\ <<pre[c].R, pre[c].G, pre[c].B>> # color[c]

(* C2: a cell that no connection is writing, and whose finished writes  *)
(* carry pairwise distinct timestamps, holds the colour and timestamp   *)
(* of the write with the greatest timestamp.                            *)
DistinctTimestamps(A) == \A a, b \in A : a[1] = b[1] => a = b

TimestampMonotonicity ==
    \A cell \in Cells :
        ( /\ attempts[cell] # {}
          /\ DistinctTimestamps(attempts[cell])
          /\ \A c \in Clients : Writing(c) => Target(c) # cell )
        => \E a \in attempts[cell] :
                /\ \A b \in attempts[cell] : b[1] <= a[1]
                /\ At(cell) = Painted(a[2], a[1])

(* C2 witness: two connections wrote one cell with distinct timestamps, *)
(* and the write with the smaller timestamp took the lock last.         *)
TimestampMonotonicityWitness ==
    \E c \in Clients :
        /\ pc[c] = "bcast"
        /\ loc[c].now < At(Target(c)).Timestamp
        /\ Cardinality(attempts[Target(c)]) = 2
        /\ DistinctTimestamps(attempts[Target(c)])
        /\ \E a \in attempts[Target(c)] : a[2] # color[c]

(* C3: a Broadcast frame is handed to the Hub only for an Update whose  *)
(* write was applied, that is whose timestamp was strictly greater than *)
(* the timestamp its cell had when the lock was taken.                  *)
BroadcastOnlyIfApplied ==
    \A c \in Clients : pc[c] = "bcast" => loc[c].now > pre[c].Timestamp

(* C4: a connection whose Update has the timestamp its cell already     *)
(* had is not sent an UpdateAck with result 1.                          *)
TieRejectionReported ==
    [][ \A c \in Clients :
            (pc[c] = "ack" /\ loc[c].now = pre[c].Timestamp)
            => send'[c] # Append(send[c], <<MsgTypeUpdateAck, 1>>) ]_vars

(* C5: an Update whose panel index is >= numPanels or whose x or y is   *)
(* >= panelSize, and a Request whose panel index is >= numPanels, is    *)
(* dropped: the step that handles it leaves the grid, its lock, the     *)
(* Hub's client set and every outbound queue as they were, and the      *)
(* connection is back at reading the next frame.                        *)
OutOfRangeFrame(m) ==
    /\ m.messageType = BinaryMessage
    /\ \/ /\ Len(m.data) >= 5
          /\ m.data[1] = MsgTypeUpdate
          /\ \/ m.data[2] * 256 + m.data[3] >= numPanels
             \/ m.data[4] >= panelSize
             \/ m.data[5] >= panelSize
       \/ /\ Len(m.data) >= 3
          /\ m.data[1] = MsgTypeRequest
          /\ m.data[2] * 256 + m.data[3] >= numPanels

RangeRejection ==
    [][ \A c \in Clients :
            (pc[c] = "decode" /\ pc'[c] # "decode" /\ OutOfRangeFrame(msg[c]))
            => /\ pc'[c] = "read"
               /\ panels' = panels /\ writer' = writer /\ readers' = readers
               /\ clients' = clients /\ send' = send /\ closed' = closed
               /\ ~panicked' ]_vars

(* C5 witness: a registered connection has dropped an out-of-range      *)
(* frame and reads on, while the grid is painted and its own queue      *)
(* holds frames.                                                        *)
RangeRejectionWitness ==
    \E c \in Clients :
        /\ pc[c] = "read"
        /\ OutOfRangeFrame(msg[c])
        /\ c \in clients
        /\ send[c] # <<>>
        /\ panels # ZeroPanels

(* C6: while a goroutine holds the read lock the grid is the grid it    *)
(* found when it took the lock; the payload a Request has built so far  *)
(* is a prefix of that panel's raster (row by row, R, G, B), the pixels *)
(* a snapshot has set so far are those of that grid, and every pixel    *)
(* copied is black or one connection's colour.                          *)
Raster(P) ==
    [k \in 1..(3 * panelSize * panelSize) |->
        LET px == P[((k - 1) \div 3) \div panelSize][((k - 1) \div 3) % panelSize]
        IN  CASE (k - 1) % 3 = 0 -> px.R
              [] (k - 1) % 3 = 1 -> px.G
              [] OTHER -> px.B]

Whole(col) == col = <<0, 0, 0>> \/ \E d \in Clients : col = color[d]

(* The snapshot loop has passed cell (i, y, x). *)
SnapPassed(cell) ==
    \/ snappc = "unlock"
    \/ cell[1] < cur.i
    \/ cell[1] = cur.i /\ cell[2] < cur.y
    \/ cell[1] = cur.i /\ cell[2] = cur.y /\ cell[3] < cur.x

BulkReadsAtomic ==
    /\ \A c \in Clients :
            pc[c] \in {"copy", "runlock"} =>
                LET payload == SubSeq(buf[c], 4, Len(buf[c])) IN
                /\ panels = held[c]
                /\ SubSeq(buf[c], 1, 3) = <<MsgTypePanelSync>> \o PutUint16(loc[c].panel)
                /\ payload = SubSeq(Raster(held[c][loc[c].panel]), 1, Len(payload))
                /\ pc[c] = "runlock" => Len(payload) = 3 * panelSize * panelSize
                /\ \A k \in 1..(Len(payload) \div 3) :
                        Whole(SubSeq(payload, 3 * k - 2, 3 * k))
    /\ snappc \in {"copy", "unlock"} =>
            /\ panels = held[Timer]
            /\ \A cell \in Cells :
                    SnapPassed(cell) =>
                        LET px == held[Timer][cell[1]][cell[2]][cell[3]]
                            at == << (cell[1] % cols) * panelSize + cell[3],
                                     (cell[1] \div cols) * panelSize + cell[2] >>
                        IN  /\ img[at] = <<px.R, px.G, px.B, 255>>
                            /\ Whole(<<img[at][1], img[at][2], img[at][3]>>)

(* C6 witness: the snapshot timer and a Request hold the read lock      *)
(* together, each part-way through its copy, while an Update of the    *)
(* panel the Request is copying waits for the write lock.               *)
BulkReadsAtomicWitness ==
    \E c, d \in Clients :
        /\ readers = {c, Timer}
        /\ pc[c] = "copy" /\ Len(buf[c]) > 3
        /\ snappc = "copy" /\ cur # NoCur
        /\ pc[d] = "lock" /\ loc[d].panel = loc[c].panel

(* C7: in one broadcast the frame is enqueued at most once on any       *)
(* client, never on a client outside the set the Hub ranged over, and   *)
(* exactly once on every client of that set the Hub has passed and      *)
(* whose queue was not full.                                            *)
FanOutAtMostOnce ==
    \A c \in Clients :
        /\ fanCount[c] <= 1
        /\ c \notin fanSet => fanCount[c] = 0
        /\ c \in fanSet \ todo =>
                fanCount[c] = IF c \in fanFull THEN 0 ELSE 1

(* C7 witness: a broadcast over both clients is complete and each, the  *)
(* originator included, got the frame once.                             *)
FanOutAtMostOnceWitness ==
    /\ hubpc = "select"
    /\ fanSet = Clients
    /\ \A c \in Clients : fanCount[c] = 1
    /\ \E c \in Clients : pc[c] = "ack"

(* C8: the pass of a broadcast over a client whose queue is full        *)
(* removes that client from the set and closes its queue, and changes   *)
(* no queue; the pass over any other client appends the frame to that   *)
(* client's queue alone; and when the broadcast is complete every       *)
(* client of the set whose queue was not full has the frame.            *)
BroadcastIsolation ==
    /\ [][ \A d \in Clients :
              (hubpc = "range" /\ d \in todo /\ d \notin todo') =>
                  IF Len(send[d]) >= QueueCap
                  THEN /\ clients' = clients \ {d}
                       /\ closed' = [closed EXCEPT ![d] = TRUE]
                       /\ send' = send
                  ELSE /\ send' = [send EXCEPT ![d] = Append(send[d], message)]
                       /\ clients' = clients
                       /\ closed' = closed ]_vars
    /\ [](hubpc = "select" =>
            /\ \A c \in fanSet \ fanFull : fanCount[c] = 1
            /\ \A d \in fanFull : d \notin clients /\ closed[d])

(* C8 witness: a complete broadcast has evicted one client and          *)
(* delivered the frame to another.                                      *)
BroadcastIsolationWitness ==
    /\ hubpc = "select"
    /\ ~panicked
    /\ \E d \in fanFull, c \in fanSet \ fanFull :
            /\ d \notin clients /\ closed[d]
            /\ c \in clients /\ fanCount[c] = 1

(* C9: a client that was registered and is no longer in the set stays   *)
(* out of the set, is in no later range of the Hub, and nothing more    *)
(* is enqueued on its queue.                                            *)
Removed(c) == pc[c] \notin {"new", "register"} /\ c \notin clients

NeverTargetedAfterRemoval ==
    [][ \A c \in Clients :
            Removed(c) =>
                /\ c \notin clients'
                /\ c \notin todo'
                /\ Len(send'[c]) <= Len(send[c]) ]_vars

(* C9 witness: a broadcast has completed, and delivered, after the      *)
(* removal of a client that had been registered.                        *)
NeverTargetedAfterRemovalWitness ==
    \E c, d \in Clients :
        /\ Removed(c)
        /\ c \notin fanSet
        /\ hubpc = "select"
        /\ d \in fanSet /\ fanCount[d] = 1
        /\ ~panicked

(* C10: an unregister for a client that is not in the set changes       *)
(* neither the set nor any queue, and closes nothing.                   *)
UnregisterIdempotent ==
    [][ \A c \in Clients :
            (pc[c] = "unregister" /\ pc'[c] = "closed" /\ c \notin clients)
            => /\ clients' = clients
               /\ send' = send
               /\ closed' = closed
               /\ ~panicked' ]_vars

(* C10 witness: a client evicted by a broadcast has then been           *)
(* unregistered, and the server runs on.                                *)
UnregisterIdempotentWitness ==
    \E c \in Clients :
        /\ c \in fanFull
        /\ pc[c] = "closed"
        /\ closed[c]
        /\ ~panicked

(* C11: no goroutine is at, or has made, a send on an outbound queue    *)
(* that the Hub has closed: the process has not panicked, and a read    *)
(* loop that is about to enqueue an UpdateAck or a PanelSync on its own *)
(* queue finds that queue open.                                         *)
NoSendOnClosedQueue ==
    /\ ~panicked
    /\ \A c \in Clients : pc[c] \in {"ack", "sync"} => ~closed[c]

(* C12: the Broadcast frames of one connection reach the Hub in the     *)
(* order its read loop took their timestamps; in every outbound queue   *)
(* two frames of one connection stand in the order the Hub got them;    *)
(* and a queue changes only by a frame joining its end or its head      *)
(* leaving, so the outbound loop writes frames in the order enqueued.   *)
FrameTime(f) == Uint64(SubSeq(f, 9, 16))

(* The places of frame f in what the connections gave the Hub. *)
Origins(f) ==
    { p \in Clients \X (1..(MaxFrames + 1)) :
        p[2] <= Len(handed[p[1]]) /\ handed[p[1]][p[2]] = f }

QueueOrder ==
    /\ \A c \in Clients : \A k, l \in DOMAIN handed[c] :
            k < l => FrameTime(handed[c][k]) <= FrameTime(handed[c][l])
    /\ \A c, d \in Clients :
        \A k, l \in DOMAIN handed[c] : \A i, j \in DOMAIN send[d] :
            ( /\ k < l
              /\ send[d][i] = handed[c][k] /\ send[d][j] = handed[c][l]
              /\ Cardinality(Origins(handed[c][k])) = 1
              /\ Cardinality(Origins(handed[c][l])) = 1 ) => i < j

PerConnectionFifo ==
    /\ []QueueOrder
    /\ [][ \A c \in Clients :
              \/ send'[c] = send[c]
              \/ send[c] # <<>> /\ send'[c] = Tail(send[c])
              \/ /\ Len(send'[c]) = Len(send[c]) + 1
                 /\ SubSeq(send'[c], 1, Len(send[c])) = send[c] ]_vars

(* C12 witness: a connection painted one cell twice, at two readings of *)
(* the clock, and another client's queue holds both Broadcast frames,   *)
(* the earlier one first.                                               *)
PerConnectionFifoWitness ==
    \E c, d \in Clients :
        /\ c # d
        /\ Len(handed[c]) = 2
        /\ FrameTime(handed[c][1]) < FrameTime(handed[c][2])
        /\ SubSeq(handed[c][1], 1, 5) = SubSeq(handed[c][2], 1, 5)
        /\ send[d] = handed[c]
        /\ ~panicked

(* C13: a connection waiting to be registered has exactly its           *)
(* AssignColor frame in its queue and is not in the Hub's set; an       *)
(* AssignColor frame is enqueued by the admission step alone, which     *)
(* happens once per connection; and the colour is set in that step and  *)
(* never again.                                                         *)
ColourFrame(c) == <<MsgTypeAssignColor, color[c][1], color[c][2], color[c][3]>>

AssignColorFirst ==
    /\ [](\A c \in Clients :
            pc[c] = "register" => send[c] = <<ColourFrame(c)>> /\ c \notin clients)
    /\ [][ \A c \in Clients :
              /\ pc[c] # "new" => pc'[c] # "new" /\ color'[c] = color[c]
              /\ ( /\ Len(send'[c]) = Len(send[c]) + 1
                   /\ send'[c][Len(send'[c])][1] = MsgTypeAssignColor )
                 => pc[c] = "new" /\ send[c] = <<>>
              /\ (pc[c] = "new" /\ pc'[c] # "new")
                 => /\ pc'[c] = "register"
                    /\ send'[c] = << <<MsgTypeAssignColor, color'[c][1],
                                        color'[c][2], color'[c][3]>> >> ]_vars

(* C13 witness: a registered client's queue holds its AssignColor frame *)
(* and, behind it, a Broadcast of another connection's colour.          *)
AssignColorFirstWitness ==
    \E c \in Clients :
        /\ c \in clients
        /\ Len(send[c]) = 2
        /\ send[c][1] = ColourFrame(c)
        /\ send[c][2][1] = MsgTypeBroadcast
        /\ SubSeq(send[c][2], 6, 8) # color[c]

(* C14: the Broadcast frame a connection has just given the Hub is 16   *)
(* bytes of type 4 and reads back, as the clients read it, as the       *)
(* panel, x and y the client encoded in its Update, the connection's    *)
(* colour and the timestamp of the write attempt; and the frame built   *)
(* for panels, coordinates and timestamps wider than one byte reads     *)
(* back as those values too.                                            *)
ReadsBackAs(f, t, col, now) ==
    /\ Len(f) = 16
    /\ f[1] = MsgTypeBroadcast
    /\ f[2] * 256 + f[3] = t[1]
    /\ f[4] = t[2]
    /\ f[5] = t[3]
    /\ <<f[6], f[7], f[8]>> = col
    /\ Uint64(SubSeq(f, 9, 16)) = now
    /\ \A i \in 1..16 : f[i] \in 0..255

WideTargets == {<<255, 0, 127>>, <<256, 127, 0>>, <<839, 1, 2>>}
WideTimes == {255, 256, 16909060}

ProtocolRoundTrip ==
    /\ \A c \in Clients :
            pc[c] = "ack" =>
                \E t \in InRangeTargets :
                    /\ msg[c].data = UpdateFrame(t)
                    /\ ReadsBackAs(handed[c][Len(handed[c])], t, color[c],
                                   loc[c].now)
    /\ \A t \in WideTargets, now \in WideTimes, c \in Clients :
            ReadsBackAs(BcastMsg(t[1], t[2], t[3], color[c], now), t,
                        color[c], now)

(* C14 witness: a connection with a colour of its own has had its       *)
(* Update of the last cell of the last panel, written at the second     *)
(* reading of the clock, turned into a Broadcast frame.                 *)
ProtocolRoundTripWitness ==
    \E c \in Clients :
        /\ pc[c] = "ack"
        /\ msg[c].data = UpdateFrame(<<LastPanel, LastCoord, LastCoord>>)
        /\ loc[c].now > 1
        /\ \A d \in Clients \ {c} : color[d] # color[c]
        /\ handed[c][Len(handed[c])] = message

(* C15: a Request in range runs to one PanelSync frame on the           *)
(* requester's queue: when the read lock is released the buffer is the  *)
(* header with the requested panel and that panel's raster (row by row, *)
(* R, G, B); the step after it appends that buffer to the requester's   *)
(* queue; and no step of the handler changes the grid, the Hub's set,   *)
(* another queue, or ends the process.                                  *)
Requested(c) == msg[c].data[2] * 256 + msg[c].data[3]

OnRequest(c) == pc[c] \in {"rlock", "copy", "runlock", "sync"}

(* The handler of c's Request takes a step, or dies at its send. *)
RequestStep(c) ==
    \/ pc'[c] # pc[c]
    \/ buf'[c] # buf[c]
    \/ pc[c] = "sync" /\ closed[c] /\ panicked'

PanelSyncFrame(c) ==
    <<MsgTypePanelSync, Requested(c) \div 256, Requested(c) % 256>>
        \o Raster(panels[Requested(c)])

RequestYieldsPanelSync ==
    /\ [](\A c \in Clients : pc[c] = "runlock" => buf[c] = PanelSyncFrame(c))
    /\ [][ \A c \in Clients :
              (OnRequest(c) /\ RequestStep(c)) =>
                  /\ panels' = panels
                  /\ clients' = clients
                  /\ closed' = closed
                  /\ ~panicked'
                  /\ \A d \in Clients \ {c} : send'[d] = send[d]
                  /\ pc[c] # "sync" => send'[c] = send[c]
                  /\ pc[c] \in {"runlock", "sync"} => buf'[c] \in {buf[c], <<>>}
                  /\ pc[c] = "sync" =>
                        /\ Len(buf[c]) = 3 + panelSize * panelSize * 3
                        /\ send'[c] = Append(send[c], buf[c]) ]_vars

(* C16: of the Updates one connection sends within one reading of the   *)
(* clock (a window with no refill), at most Burst reach the grid and    *)
(* the Hub.                                                             *)
RateLimited ==
    \A c \in Clients : \A t \in 1..MaxTime :
        Cardinality({ k \in DOMAIN handed[c] : FrameTime(handed[c][k]) = t })
            <= Burst

(* C17: the step that handles an empty frame, a frame that is not       *)
(* binary, a frame of unknown type, or an Update or Request shorter     *)
(* than its minimum leaves the grid, its lock, the Hub's set and every  *)
(* queue as they were, does not end the process, and puts the read loop *)
(* back at reading the next frame.                                      *)
Malformed(m) ==
    \/ m.messageType # BinaryMessage
    \/ Len(m.data) < 1
    \/ m.data[1] \notin {MsgTypeUpdate, MsgTypeRequest}
    \/ m.data[1] = MsgTypeUpdate /\ Len(m.data) < 5
    \/ m.data[1] = MsgTypeRequest /\ Len(m.data) < 3

MalformedDropped ==
    [][ \A c \in Clients :
            (pc[c] = "decode" /\ pc'[c] # "decode" /\ Malformed(msg[c]))
            => /\ pc'[c] = "read"
               /\ panels' = panels /\ writer' = writer /\ readers' = readers
               /\ clients' = clients /\ send' = send /\ closed' = closed
               /\ ~panicked' ]_vars

(* C17 witness: one registered connection has dropped a frame that is   *)
(* not binary, another a short Update, and both read on.                *)
MalformedDroppedWitness ==
    \E c, d \in Clients :
        /\ c \in clients /\ d \in clients
        /\ pc[c] = "read" /\ msg[c].messageType = TextMessage
        /\ pc[d] = "read" /\ msg[d] = Binary(<<MsgTypeUpdate, 0, 0, 0>>)


(* ------------------------------------------------------------------ *)
(* C18.  Snapshot round trip: when loadLatestSnapshot has restored an  *)
(* artifact, every cell has exactly the R, G, B the grid had when      *)
(* snapshotPanels read it; the place restore reads a cell from is the  *)
(* place snapshot wrote it to, and the cells cover the image exactly   *)
(* once (cols * rows = numPanels).                                     *)
(* ------------------------------------------------------------------ *)
SameColours(g, h) ==
    \A k \in Cells :
        /\ g[k[1]][k[2]][k[3]].R = h[k[1]][k[2]][k[3]].R
        /\ g[k[1]][k[2]][k[3]].G = h[k[1]][k[2]][k[3]].G
        /\ g[k[1]][k[2]][k[3]].B = h[k[1]][k[2]][k[3]].B

TilingInverse ==
    /\ cols * rows = numPanels
    /\ \A k \in Cells :
          RestorePoint(k[1], k[3], k[2]) = ImagePoint(k[1], k[3], k[2])
    /\ { ImagePoint(k[1], k[3], k[2]) : k \in Cells } = DOMAIN NewRGBA
    /\ Cardinality({ RestorePoint(k[1], k[3], k[2]) : k \in Cells })
          = Cardinality(Cells)

SnapshotRoundTrip ==
    /\ TilingInverse
    /\ mainpc = "loaded" => SameColours(panels, FileNamed(latest).grid)

(* Restored: a grid with two painted cells, one off the diagonal of    *)
(* the last panel.                                                     *)
SnapshotRoundTripWitness ==
    /\ mainpc = "loaded"
    /\ At(<<0, 0, 0>>).R + At(<<0, 0, 0>>).G + At(<<0, 0, 0>>).B > 0
    /\ At(<<LastPanel, 0, LastCoord>>).R + At(<<LastPanel, 0, LastCoord>>).G
          + At(<<LastPanel, 0, LastCoord>>).B > 0


(* ------------------------------------------------------------------ *)
(* C19.  Restore loads the most recent snapshot: whatever the times    *)
(* that name the files of the data directory, the file that            *)
(* loadLatestSnapshot picks is the one named by the greatest time.     *)
(* ------------------------------------------------------------------ *)
NamedBy(t) == FileName(t) \in Snapshots

LatestIsMostRecent ==
    latest # <<>> =>
        \E t \in Stamps :
            /\ latest = FileName(t)
            /\ \A u \in Stamps : NamedBy(u) => u <= t


(* ------------------------------------------------------------------ *)
(* C20.  A failed restore leaves the grid untouched: when the data     *)
(* directory holds no artifact, or the artifact picked cannot be       *)
(* decoded or has not cols*panelSize by rows*panelSize points, the     *)
(* load is skipped; a skipped load, whatever made it fail (reading the *)
(* directory and opening the file included), changes no cell's colour  *)
(* or timestamp and does not end the process, and main then starts the *)
(* Hub and accepts connections.                                        *)
(* ------------------------------------------------------------------ *)
Picked == FileNamed(LatestName(Snapshots)).image

Unusable ==
    \/ Snapshots = {}
    \/ Picked = Undecodable
    \/ Cardinality({ pt[1] : pt \in DOMAIN Picked.pix }) # cols * panelSize
    \/ Cardinality({ pt[2] : pt \in DOMAIN Picked.pix }) # rows * panelSize

SkipStep ==
    /\ (mainpc = "load" /\ mainpc' # "load" /\ Unusable) => mainpc' = "skipped"
    /\ (mainpc = "load" /\ mainpc' = "skipped") => panels' = panels
    /\ (mainpc = "skipped" /\ mainpc' # "skipped") => mainpc' = "serve"

FailedRestoreLeavesGrid ==
    /\ [](mainpc = "skipped" => ~panicked /\ ENABLED StartHub)
    /\ [][SkipStep]_vars

(* After a load skipped for an artifact of the wrong size, the grid is *)
(* empty, the Hub runs and a connection is registered.                 *)
FailedRestoreLeavesGridWitness ==
    /\ mainpc = "serve"
    /\ latest # <<>>
    /\ FileNamed(latest).image = PngEncode(OnePixel)
    /\ panels = ZeroPanels
    /\ clients # {}


(* ------------------------------------------------------------------ *)
(* C21.  After a restore every cell's timestamp is 0, and the first    *)
(* Update in range that reaches a cell after the start is applied.     *)
(* Until main has started the Hub no connection is accepted, the Hub   *)
(* has no client and no cell has a timestamp other than 0: the restore *)
(* resets no timestamp that an Update wrote.                           *)
(* ------------------------------------------------------------------ *)
AllTimestampsZero == \A k \in Cells : At(k).Timestamp = 0

BeforeServing ==
    /\ clients = {}
    /\ hubpc = "select"
    /\ \A c \in Clients : pc[c] = "new" /\ send[c] = <<>>
    /\ writer = NoOne
    /\ AllTimestampsZero

FirstUpdateStep ==
    \A c \in Clients :
        (pc[c] = "cmp" /\ pc'[c] # "cmp" /\ mainpc' = "serve"
            /\ attempts[Target(c)] = {})
            => pc'[c] = "setR"

FirstUpdateAfterRestoreWins ==
    /\ [](mainpc = "loaded" => AllTimestampsZero)
    /\ [](mainpc # "serve" => BeforeServing)
    /\ [][FirstUpdateStep]_vars

(* An Update is being applied to a cell that the restore painted.      *)
FirstUpdateAfterRestoreWinsWitness ==
    \E c \in Clients :
        /\ pc[c] = "setR"
        /\ latest # <<>>
        /\ pre[c].Timestamp = 0
        /\ pre[c].R + pre[c].G + pre[c].B > 0


(* ------------------------------------------------------------------ *)
(* C22.  The Hub never blocks on a client: a range over the clients    *)
(* always ends, whatever the fill of the queues, and under fair        *)
(* scheduling of the Hub every register, unregister and broadcast that *)
(* a goroutine offers is eventually taken.                             *)
(* ------------------------------------------------------------------ *)
Offers(c) == pc[c] \in {"register", "bcast", "unregister"}

HubConsumesEveryOffer ==
    /\ (hubpc = "range") ~> (hubpc = "select")
    /\ \A c \in Clients : Offers(c) ~> ~Offers(c)


(* ------------------------------------------------------------------ *)
(* C23.  The inbound loop never waits on its own outbound queue: when  *)
(* it is about to enqueue the UpdateAck or the PanelSync frame, the    *)
(* queue has room.                                                     *)
(* ------------------------------------------------------------------ *)
BlockedOnOwnQueue(c) ==
    /\ pc[c] \in {"ack", "sync"}
    /\ ~closed[c]
    /\ Len(send[c]) >= QueueCap

NeverBlocksOnOwnQueue == \A c \in Clients : ~BlockedOnOwnQueue(c)


(* ------------------------------------------------------------------ *)
(* C24.  Termination is live: after a read error, or a write error of  *)
(* the outbound loop, the client eventually is out of the Hub's set    *)
(* with its queue closed and both its loops ended, whatever was in its *)
(* queue when the error happened.                                      *)
(* ------------------------------------------------------------------ *)
TransportError(c) ==
    \/ pc[c] = "unregister"
    \/ wp[c] = "done" /\ pc[c] \notin {"new", "register", "closed"}

Terminated(c) ==
    /\ c \notin clients
    /\ closed[c]
    /\ pc[c] = "closed"
    /\ wp[c] = "done"

TerminationIsLive == \A c \in Clients : TransportError(c) ~> Terminated(c)


(* ------------------------------------------------------------------ *)
(* C25.  Membership: every client of the Hub's set has its outbound    *)
(* loop running; no client whose outbound loop has returned, on a      *)
(* write error or on the close of its queue, is in the set.            *)
(* ------------------------------------------------------------------ *)
OutboundEnded(c) == wp[c] = "done"

MembershipInvariant == \A c \in clients : ~OutboundEnded(c)


(* ------------------------------------------------------------------ *)
(* C26.  Double-close safety: close(client.send) is called at most     *)
(* once per queue; a queue is closed only in the Hub step that removes *)
(* its client from the set; every client of the set has an open queue. *)
(* ------------------------------------------------------------------ *)
ClosedOnRemoval ==
    \A c \in Clients :
        closes'[c] # closes[c]
            => /\ ~closed[c] /\ closed'[c]
               /\ c \in clients /\ c \notin clients'

NoDoubleClose ==
    /\ [](\A c \in Clients : closes[c] <= 1 /\ (closed[c] <=> closes[c] = 1))
    /\ [](\A c \in clients : ~closed[c])
    /\ [][ClosedOnRemoval]_vars

(* The inbound loop's unregister has been taken for a client that a    *)
(* broadcast had evicted, and the Hub is back at its select.           *)
NoDoubleCloseWitness ==
    \E c \in fanFull :
        /\ pc[c] = "closed"
        /\ closes[c] = 1
        /\ hubpc = "select"
        /\ ~panicked


(* ------------------------------------------------------------------ *)
(* C27.  View convergence: when no Update is in progress and the Hub   *)
(* is at its select, the last Broadcast frame for a cell in the queue  *)
(* of a client that was never evicted carries the colour the grid      *)
(* holds for that cell.                                                *)
(* ------------------------------------------------------------------ *)
Quiet ==
    /\ hubpc = "select"
    /\ \A c \in Clients : pc[c] \in {"new", "register", "read"}

(* The places of queue q that hold a Broadcast frame for cell k. *)
FramesFor(q, k) ==
    { i \in DOMAIN q :
        /\ q[i][1] = MsgTypeBroadcast
        /\ Uint16(SubSeq(q[i], 2, 3)) = k[1]
        /\ q[i][5] = k[2]
        /\ q[i][4] = k[3] }

LastFor(q, k) == q[CHOOSE i \in FramesFor(q, k) : \A j \in FramesFor(q, k) : j <= i]

ViewConvergence ==
    Quiet =>
        \A d \in clients : \A k \in Cells :
            FramesFor(send[d], k) # {}
                => /\ LastFor(send[d], k)[6] = At(k).R
                   /\ LastFor(send[d], k)[7] = At(k).G
                   /\ LastFor(send[d], k)[8] = At(k).B


(* ------------------------------------------------------------------ *)
(* C28.  Ack ordering: when a connection that is registered enqueues   *)
(* the UpdateAck of an Update, the Hub's fan-out of that Update's      *)
(* Broadcast has already passed the connection's own queue.            *)
(* ------------------------------------------------------------------ *)
OwnFrameDue(c) == hubpc = "range" /\ c \in todo

AckStep(c) == pc[c] = "ack" /\ pc'[c] = "read"

BroadcastBeforeAck ==
    [][\A c \in Clients : (AckStep(c) /\ c \in clients') => ~OwnFrameDue(c)]_vars


(* ------------------------------------------------------------------ *)
(* C29.  Earlier generation: for every accepted connection, serveWs    *)
(* eventually has enqueued one PanelSync frame per panel and started   *)
(* the connection's outbound and inbound loops.                        *)
(* ------------------------------------------------------------------ *)
AcceptedV1(c) == pc[c] = "register"

PumpsStartedV1(c) ==
    /\ loc[c].panel = numPanelsV1
    /\ wp[c] = "run"
    /\ pc[c] = "read"

FullSyncCompletes == \A c \in Clients : AcceptedV1(c) ~> PumpsStartedV1(c)

(* ------------------------------------------------------------------ *)
(* C30.  Earlier generation: every panel index below numPanels is the  *)
(* panel some Update or Request frame addresses, the header of the     *)
(* PanelSync frame of a panel is that panel's index, and no two panels *)
(* have the same header.                                               *)
(* ------------------------------------------------------------------ *)
AddressableV1(p) ==
    \E b \in Bytes : PanelOfV1(<<MsgTypeUpdate, b, 0, 0, 0, 0, 0>>) = p

(* The panel whose pixels the k-th frame of c's channel contains: the  *)
(* channel holds the frames of the passes before the current one.      *)
PassOf(c, k) == loc[c].panel - Len(send[c]) + k - 1

EveryPanelHasItsIndex ==
    \A c \in Clients :
        /\ loc[c].panel < numPanelsV1 => AddressableV1(loc[c].panel)
        /\ \A k \in DOMAIN send[c] :
              /\ send[c][k][2] = PassOf(c, k)
              /\ \A d \in Clients : \A j \in DOMAIN send[d] :
                    send[c][k][2] = send[d][j][2] => PassOf(c, k) = PassOf(d, j)

====
